---- MODULE Spec2Model ----
(***************************************************************************)
(* Model of log.py: one shared logger "fixmylabdevice" with a console      *)
(* sink and an in-memory buffer sink, the log directory resolver           *)
(* (get_logdir / write_testfile / get_tempdir) and the exporters           *)
(* (make_logfile / buffer_to_logfile / create_paste / buffer_log_to_paste).*)
(*                                                                         *)
(* Every function of log.py is an operator from the state of the process   *)
(* (a record w holding the module globals, the file system, the            *)
(* environment and the clock) to the state after the call, with the        *)
(* returned value and the escaping exception where the function has one.   *)
(* An action of the state machine is one call of the public API.           *)
(***************************************************************************)
EXTENDS Integers, Sequences, FiniteSets, TLC

VARIABLES
    LOG_SETUP,       \* log.py:25   _LOG_SETUP
    CONSOLE_LEVEL,   \* log.py:33   _CONSOLE_LEVEL
    CONSOLE_FORMAT,  \* log.py:35   _CONSOLE_FORMAT
    handlers,        \* _LOGGER.handlers: sequence of handler records
    emitted,         \* names of the handlers that handled the last record
    lastToggle,      \* history: the last of enable_debug / disable_debug
    sysdir,          \* what the path _LOG_DIR is: "dir", "file" or "absent"
    sysWritable,     \* files can be created in _LOG_DIR when it is a directory
    tmpWritable,     \* files can be created in the OS temp directory
    tempdir,         \* tempfile.tempdir, the cache of tempfile.gettempdir()
    environ,         \* os.environ
    files,           \* exported files: path -> contents, NoFile when absent
    now,             \* datetime.now() to the second
    CA_BUNDLE,       \* everpaste._CA_BUNDLE
    result,          \* the last call of the resolver or of an exporter: its
                     \* name, argument and outcome (NoCall after another call)
    pc               \* per thread: position inside get_logger()

vars == <<LOG_SETUP, CONSOLE_LEVEL, CONSOLE_FORMAT, handlers, emitted,
          lastToggle, sysdir, sysWritable, tmpWritable, tempdir, environ, files, now,
          CA_BUNDLE, result, pc>>

(***************************************************************************)
(* Bounds of the model.                                                    *)
(***************************************************************************)
\* a call that adds lines to the buffer is taken while the buffer holds fewer
\* than MaxLog lines
MaxLog == 1
\* the clock runs from 0 to MaxClock seconds
MaxClock == 1
\* number of threads of the concurrent specification
NThreads == 2

(***************************************************************************)
(* Constants of the logging library used by log.py.                        *)
(***************************************************************************)
DEBUG == 10
INFO == 20
WARNING == 30
ERROR == 40

LOGGER_LEVEL == DEBUG

FORMATTER_USER == "%(message)s"
FORMATTER_DEBUG == "%(asctime)s - %(levelname)s - %(message)s"

\* Python's None where a string is expected, and where a path or a text is
None == "None"
NoPath == <<>>
NoFile == <<"no such file">>

LevelName(level) ==
    CASE level = DEBUG -> "DEBUG"
      [] level = INFO -> "INFO"
      [] level = WARNING -> "WARNING"
      [] level = ERROR -> "ERROR"
      [] OTHER -> "Level"

\* logging.Formatter.format: the text of one record under a format string
Format(formatter, level, msg) ==
    IF formatter = FORMATTER_USER
    THEN <<msg>>
    ELSE <<"asctime", LevelName(level), msg>>

(***************************************************************************)
(* The state of the process as one record.                                 *)
(***************************************************************************)
World ==
    [LOG_SETUP |-> LOG_SETUP, CONSOLE_LEVEL |-> CONSOLE_LEVEL,
     CONSOLE_FORMAT |-> CONSOLE_FORMAT, handlers |-> handlers,
     emitted |-> emitted, sysdir |-> sysdir,
     sysWritable |-> sysWritable, tmpWritable |-> tmpWritable,
     tempdir |-> tempdir, environ |-> environ, files |-> files, now |-> now,
     CA_BUNDLE |-> CA_BUNDLE]

\* sequencing: F applied to the value of e, which is computed once
Bind(e, F(_)) == CHOOSE r \in {F(v) : v \in {e}} : TRUE

\* a call's outcome: the state after it, the value returned, the exception
\* that escaped ("none" when the call returned)
Outcome(w, ret, exc) == [w |-> w, ret |-> ret, exc |-> exc]

(***************************************************************************)
(* Log Registry                                                            *)
(***************************************************************************)
\* mutant: the console handler set up with the defaults of lines 33-35
\* instead of the module's current console level and format
setup_console_handler_default(w) ==
    [name |-> "console", formatter |-> FORMATTER_USER, level |-> INFO,
     stream |-> <<>>]

setup_console_handler(w) ==
    [name |-> "console", formatter |-> w.CONSOLE_FORMAT,
     level |-> w.CONSOLE_LEVEL, stream |-> <<>>]

setup_buffer_handler ==
    [name |-> "buffer", formatter |-> FORMATTER_DEBUG, level |-> DEBUG,
     stream |-> <<>>]

\* logging.Logger.addHandler: every call of a setup_* function makes a new
\* handler object, so the handler is never already in the list
addHandler(hs, h) == Append(hs, h)

\* mutant: get_logger without the test of _LOG_SETUP
get_logger_unguarded(w) ==
    [w EXCEPT
        !.handlers = addHandler(addHandler(w.handlers,
                                           setup_console_handler(w)),
                                setup_buffer_handler),
        !.LOG_SETUP = TRUE]

get_logger(w) ==
    IF ~w.LOG_SETUP
    THEN [w EXCEPT
            !.handlers = addHandler(addHandler(w.handlers,
                                               setup_console_handler(w)),
                                    setup_buffer_handler),
            !.LOG_SETUP = TRUE]
    ELSE w

\* StreamHandler.emit: the buffer handler appends the formatted line to its
\* StringIO; a console handler writes it to sys.stderr, which keeps nothing
emit(h, level, msg) ==
    IF h.name = "buffer"
    THEN [h EXCEPT !.stream = Append(h.stream, Format(h.formatter, level, msg))]
    ELSE h

\* Logger.callHandlers: the record is offered to every handler whose level
\* admits it
callHandlers(w, level, msg) ==
    LET hs == w.handlers
        took == SelectSeq(hs, LAMBDA h : level >= h.level)
    IN  [w EXCEPT
            !.handlers = [i \in DOMAIN hs |->
                            IF level >= hs[i].level
                            THEN emit(hs[i], level, msg) ELSE hs[i]],
            !.emitted = [i \in DOMAIN took |-> took[i].name]]

\* Logger.log on _LOGGER: dropped below the logger's level (log.py:22)
log(w0, level, msg) ==
    Bind(w0, LAMBDA w :
        IF level >= LOGGER_LEVEL
        THEN callHandlers(w, level, msg)
        ELSE [w EXCEPT !.emitted = <<>>])

\* the handlers named "buffer", in the order get_buffer_contents meets them
BufferStreams(hs) == SelectSeq(hs, LAMBDA h : h.name = "buffer")

get_buffer_contents(w) ==
    Bind(get_logger(w), LAMBDA w1 :
        IF BufferStreams(w1.handlers) # <<>>
        THEN Outcome(w1, BufferStreams(w1.handlers)[1].stream, "none")
        ELSE Outcome(w1, <<>>, "BufferError"))

\* mutant: _set_console_handler without the test of the handler's name
_set_console_handler_all(w, level, formatter) ==
    IF w.LOG_SETUP
    THEN Bind(get_logger(w), LAMBDA w1 :
            [w1 EXCEPT !.handlers =
                [i \in DOMAIN w1.handlers |->
                    [w1.handlers[i] EXCEPT !.level = level,
                                           !.formatter = formatter]]])
    ELSE w

_set_console_handler(w, level, formatter) ==
    IF w.LOG_SETUP
    THEN Bind(get_logger(w), LAMBDA w1 :
            [w1 EXCEPT !.handlers =
                [i \in DOMAIN w1.handlers |->
                    IF w1.handlers[i].name = "console"
                    THEN [w1.handlers[i] EXCEPT !.level = level,
                                                !.formatter = formatter]
                    ELSE w1.handlers[i]]])
    ELSE w

enable_debug(w) ==
    _set_console_handler(
        [w EXCEPT !.CONSOLE_LEVEL = DEBUG, !.CONSOLE_FORMAT = FORMATTER_DEBUG],
        DEBUG, FORMATTER_DEBUG)

disable_debug(w) ==
    _set_console_handler(
        [w EXCEPT !.CONSOLE_LEVEL = INFO, !.CONSOLE_FORMAT = FORMATTER_USER],
        INFO, FORMATTER_USER)

(***************************************************************************)
(* Directory Resolver                                                      *)
(***************************************************************************)
LOG_DIR == "_LOG_DIR"
OSTMP == "os temp dir"
Absent == "absent"
TmpVars == <<"TMPDIR", "TEMP", "TMP">>
EnvNames == {"TMPDIR", "TEMP", "TMP", "PATH"}
EnvDirs == {"/u", "/v"}
Dirs == {LOG_DIR, OSTMP} \cup EnvDirs

Range(s) == {s[i] : i \in DOMAIN s}

\* whether a file can be created in directory dir (a directory named by
\* TMPDIR, TEMP or TMP is taken to be usable)
CanWrite(w, dir) ==
    \/ dir = LOG_DIR /\ w.sysdir = "dir" /\ w.sysWritable
    \/ dir = OSTMP /\ w.tmpWritable
    \/ dir \in EnvDirs

\* tempfile.gettempdir(): the cached tempfile.tempdir, else the first usable
\* directory among $TMPDIR, $TEMP, $TMP and the OS default, which it caches;
\* FileNotFoundError when none is usable
gettempdir(w) ==
    LET cands == SelectSeq([i \in DOMAIN TmpVars |-> w.environ[TmpVars[i]]],
                           LAMBDA d : d # Absent) \o <<OSTMP>>
        usable == SelectSeq(cands, LAMBDA d : CanWrite(w, d))
    IN  IF w.tempdir # None THEN Outcome(w, w.tempdir, "none")
        ELSE IF usable # <<>>
        THEN Outcome([w EXCEPT !.tempdir = usable[1]], usable[1], "none")
        ELSE Outcome(w, None, "FileNotFoundError")

\* os.environ.pop(k) for the keys of present
PopEnv(environ_, present) ==
    [k \in EnvNames |-> IF k \in present THEN Absent ELSE environ_[k]]

\* os.environ.update(environ_bak)
UpdateEnv(environ_, environ_bak) ==
    [k \in EnvNames |->
        IF k \in DOMAIN environ_bak THEN environ_bak[k] ELSE environ_[k]]

get_tempdir(w) ==
    LET present == {k \in Range(TmpVars) : w.environ[k] # Absent}
        environ_bak == [k \in present |-> w.environ[k]]
    IN  Bind(gettempdir([w EXCEPT !.environ = PopEnv(w.environ, present)]),
             LAMBDA t :
                IF t.exc # "none"
                THEN t
                ELSE Outcome([t.w EXCEPT !.environ =
                                 UpdateEnv(t.w.environ, environ_bak)],
                             t.ret, "none"))

\* the marker file of a directory, f"{logdir}/fmld.testfile"
Testfile(dir) == [dir |-> dir, name |-> "fmld.testfile"]

write_testfile(w, testfile_path) ==
    Bind(get_logger(w), LAMBDA w1 :
        IF CanWrite(w1, testfile_path.dir)
        THEN Outcome(w1, TRUE, "none")
        ELSE Outcome(log(w1, DEBUG, "Failed to writing testfile"), FALSE,
                     "none"))

\* get_logdir, lines 134-162: the probe of _LOG_DIR. makedirs is what
\* os.makedirs does when it is called: "ok", "PermissionError" or "OSError"
\* (any other failure, e.g. a read-only file system or a parent that is a
\* file). Gives the state, use_tempdir and the escaping exception.
ProbeLogdir(w, makedirs) ==
    IF w.sysdir = "dir"
    THEN [w |-> w, use_tempdir |-> FALSE, exc |-> "none"]
    ELSE Bind(log(w, DEBUG, "Log directory is not directory"), LAMBDA w1 :
         IF w1.sysdir = "file"
         THEN [w |-> log(w1, ERROR,
                         "Log directory exists and is not directory"),
               use_tempdir |-> TRUE, exc |-> "none"]
         ELSE Bind(log(w1, DEBUG, "Log directory does not exist. Creating it"),
              LAMBDA w2 :
              CASE makedirs = "PermissionError" ->
                     [w |-> log(w2, INFO,
                                "Insufficient permissions to create it"),
                      use_tempdir |-> TRUE, exc |-> "none"]
                [] makedirs = "ok" ->
                     [w |-> log([w2 EXCEPT !.sysdir = "dir"], WARNING,
                                "Please verify permissions"),
                      use_tempdir |-> FALSE, exc |-> "none"]
                [] OTHER ->
                     [w |-> w2, use_tempdir |-> FALSE, exc |-> makedirs]))

ErrorLine == "Failed to write log file: Failed to write to both"

\* get_logdir, lines 167-174: the fallback to the temp directory; testfile
\* is the marker path computed at line 165
FallbackLogdir(w, testfile) ==
    Bind(get_tempdir(w), LAMBDA t :
        IF t.exc # "none" THEN t
        ELSE Bind(write_testfile(
                      log(t.w, DEBUG, "Logging to temporary log directory"),
                      testfile),
                  LAMBDA wt :
                      IF ~wt.ret
                      THEN Outcome(log(wt.w, ERROR, ErrorLine), t.ret, "none")
                      ELSE Outcome(wt.w, t.ret, "none")))

get_logdir(w, makedirs) ==
    Bind(ProbeLogdir(get_logger(w), makedirs), LAMBDA p :
        IF p.exc # "none" THEN Outcome(p.w, None, p.exc)
        ELSE IF p.use_tempdir THEN FallbackLogdir(p.w, Testfile(LOG_DIR))
        ELSE Bind(write_testfile(p.w, Testfile(LOG_DIR)), LAMBDA wt :
                IF ~wt.ret THEN FallbackLogdir(wt.w, Testfile(LOG_DIR))
                ELSE Outcome(wt.w, LOG_DIR, "none")))

(***************************************************************************)
(* File Exporter                                                           *)
(***************************************************************************)
\* a path is <<directory, name>>: make_logfile names a file by the host name
\* and the second, so on one host the name is the timestamp; the caller's
\* own path and the empty string are the other two
UserPath == <<"caller's path", -1>>
EmptyPath == <<"", -1>>
Paths == (Dirs \X (0..MaxClock)) \cup {UserPath}

\* tempfile.mkstemp(dir=tmpdir) with _get_candidate_names patched to the
\* single candidate platform.node(): O_EXCL creation of the one name; a
\* taken name exhausts the iterator (StopIteration)
mkstemp(w, dir, timestamp) ==
    IF w.files[<<dir, timestamp>>] # NoFile
    THEN Outcome(w, NoPath, "StopIteration")
    ELSE IF ~CanWrite(w, dir) THEN Outcome(w, NoPath, "PermissionError")
    ELSE Outcome([w EXCEPT !.files[<<dir, timestamp>>] = <<>>],
                 <<dir, timestamp>>, "none")

make_logfile(w, makedirs) ==
    Bind(get_logdir(w, makedirs), LAMBDA d :
        IF d.exc # "none" THEN Outcome(d.w, NoPath, d.exc)
        ELSE mkstemp(d.w, d.ret, w.now))

\* "if not path": None and the empty string
Falsy(path) == path = NoPath \/ path = EmptyPath

\* mutant: the file opened in append mode
WriteBuffer_append(w, path, writable) ==
    IF writable
    THEN Bind(get_buffer_contents(w), LAMBDA b :
            IF b.exc # "none"
            THEN Outcome(b.w, NoPath, b.exc)
            ELSE Outcome([b.w EXCEPT !.files[path] =
                            (IF @ = NoFile THEN <<>> ELSE @) \o b.ret],
                         path, "none"))
    ELSE Outcome(log(log(w, ERROR, "exception"), ERROR,
                     "Failed to write log file: path"),
                 NoPath, "none")

\* lines 218-224: writable is whether open(path, "w") succeeds
WriteBuffer(w, path, writable) ==
    IF writable
    THEN Bind(get_buffer_contents(w), LAMBDA b :
            IF b.exc # "none"
            THEN Outcome([b.w EXCEPT !.files[path] = <<>>], NoPath, b.exc)
            ELSE Outcome([b.w EXCEPT !.files[path] = b.ret], path, "none"))
    ELSE Outcome(log(log(w, ERROR, "exception"), ERROR,
                     "Failed to write log file: path"),
                 NoPath, "none")

\* the file make_logfile has just created can be opened
buffer_to_logfile(w, path, makedirs, writable) ==
    IF Falsy(path)
    THEN Bind(make_logfile(get_logger(w), makedirs), LAMBDA m :
            IF m.exc # "none" THEN Outcome(m.w, NoPath, m.exc)
            ELSE WriteBuffer(m.w, m.ret, TRUE))
    ELSE Bind(get_logger(w), LAMBDA w0 : WriteBuffer(w0, path, writable))

(***************************************************************************)
(* Paste Exporter                                                          *)
(***************************************************************************)
META_BUNDLE == "meta ca bundle"
cacert_paths ==
    <<"/etc/pki/tls/certs/ca-bundle.crt", "/etc/ssl/cert.pem",
      "/etc/ssl/certs/ca-certificates.crt",
      "/opscode/chef/embedded/ssl/certs/cacert.pem">>

\* isfile: the set of the paths that are files on this machine
add_cacert_paths(w, isfile) ==
    LET found == SelectSeq(cacert_paths, LAMBDA q : q \in isfile)
    IN  IF w.CA_BUNDLE \notin isfile /\ found # <<>>
        THEN [w EXCEPT !.CA_BUNDLE = found[1]]
        ELSE w

\* service: what EverPaste(...).create does: "ok", or any exception
create_paste(w, content, isfile, service) ==
    Bind(add_cacert_paths(get_logger(w), isfile), LAMBDA w1 :
        IF service = "ok"
        THEN Outcome(w1, "link", "none")
        ELSE Outcome(log(w1, DEBUG, "Failed to create paste"), None, "none"))

buffer_log_to_paste(w, isfile, service) ==
    Bind(get_buffer_contents(w), LAMBDA b :
        IF b.exc # "none" THEN Outcome(b.w, None, b.exc)
        ELSE IF b.ret # <<>>
        THEN create_paste(b.w, b.ret, isfile, service)
        ELSE Outcome(b.w, None, "none"))

(***************************************************************************)
(* The state machine: one action per call of the API.                      *)
(***************************************************************************)
Threads == 1..NThreads
Makedirs == {"ok", "PermissionError", "OSError"}
\* os.makedirs is called only when _LOG_DIR is absent
MakedirsHere == IF sysdir = "absent" THEN Makedirs ELSE {"not called"}
IsFiles == {{}, {cacert_paths[2], cacert_paths[3]}}

\* the text get_buffer_contents would return (empty before setup)
BufferOf(hs) ==
    IF BufferStreams(hs) = <<>> THEN <<>> ELSE BufferStreams(hs)[1].stream

Buffer == BufferOf(handlers)

\* the bound on the calls that log
Fits(w) ==
    \/ Len(BufferOf(w.handlers)) = Len(Buffer)
    \/ Len(Buffer) < MaxLog

NoCall ==
    [op |-> "none", arg |-> None, ret |-> None, exc |-> "none", pre |-> 0]

\* the call of a resolver or exporter function, as result keeps it
Call(o, op, arg) ==
    [op |-> op, arg |-> arg, ret |-> o.ret, exc |-> o.exc, pre |-> Len(Buffer)]

\* the state after a call: every variable from the record, and the call
Commit(o, call) ==
    /\ Fits(o.w)
    /\ LOG_SETUP' = o.w.LOG_SETUP
    /\ CONSOLE_LEVEL' = o.w.CONSOLE_LEVEL
    /\ CONSOLE_FORMAT' = o.w.CONSOLE_FORMAT
    /\ handlers' = o.w.handlers
    /\ emitted' = o.w.emitted
    /\ sysdir' = o.w.sysdir
    /\ sysWritable' = o.w.sysWritable
    /\ tmpWritable' = o.w.tmpWritable
    /\ tempdir' = o.w.tempdir
    /\ environ' = o.w.environ
    /\ files' = o.w.files
    /\ now' = o.w.now
    /\ CA_BUNDLE' = o.w.CA_BUNDLE
    /\ result' = call

GetLogger ==
    /\ \E o \in {Outcome(get_logger(World), None, "none")} :
          Commit(o, NoCall)
    /\ UNCHANGED <<pc, lastToggle>>

EnableDebug ==
    /\ \E o \in {Outcome(enable_debug(World), None, "none")} :
          Commit(o, NoCall)
    /\ lastToggle' = "enable_debug"
    /\ UNCHANGED pc

DisableDebug ==
    /\ \E o \in {Outcome(disable_debug(World), None, "none")} :
          Commit(o, NoCall)
    /\ lastToggle' = "disable_debug"
    /\ UNCHANGED pc

GetBufferContents ==
    /\ \E o \in {get_buffer_contents(World)} :
          Commit(o, NoCall)
    /\ UNCHANGED <<pc, lastToggle>>

\* LOG = get_logger(); LOG.debug(...) or LOG.info(...), as the callers do
Log(level) ==
    /\ \E o \in {Outcome(log(get_logger(World), level, "message"), None,
                         "none")} :
          Commit(o, NoCall)
    /\ UNCHANGED <<pc, lastToggle>>

GetTempdir ==
    /\ \E o \in {get_tempdir(World)} : Commit(o, Call(o, "get_tempdir", environ))
    /\ UNCHANGED <<pc, lastToggle>>

GetLogdir(makedirs) ==
    /\ \E o \in {get_logdir(World, makedirs)} :
          Commit(o, Call(o, "get_logdir",
                         [sysdir |-> sysdir, makedirs |-> makedirs]))
    /\ UNCHANGED <<pc, lastToggle>>

MakeLogfile(makedirs) ==
    /\ \E o \in {make_logfile(World, makedirs)} :
          Commit(o, Call(o, "make_logfile", None))
    /\ UNCHANGED <<pc, lastToggle>>

BufferToLogfile(path, makedirs, writable) ==
    /\ \E o \in {buffer_to_logfile(World, path, makedirs, writable)} :
          Commit(o, Call(o, "buffer_to_logfile",
                         [path |-> path, sysdir |-> sysdir]))
    /\ UNCHANGED <<pc, lastToggle>>

CreatePaste(isfile, service) ==
    /\ \E o \in {create_paste(World, "content", isfile, service)} :
          Commit(o, Call(o, "create_paste", None))
    /\ UNCHANGED <<pc, lastToggle>>

BufferLogToPaste(isfile, service) ==
    /\ \E o \in {buffer_log_to_paste(World, isfile, service)} :
          Commit(o, Call(o, "buffer_log_to_paste", None))
    /\ UNCHANGED <<pc, lastToggle>>

\* a second passes
Tick ==
    /\ now < MaxClock
    /\ now' = now + 1
    /\ result' = NoCall
    /\ UNCHANGED <<LOG_SETUP, CONSOLE_LEVEL, CONSOLE_FORMAT, handlers, emitted,
                   lastToggle, sysdir, sysWritable, tmpWritable, tempdir,
                   environ, files, CA_BUNDLE, pc>>

NoEnv == [k \in EnvNames |-> IF k = "PATH" THEN "/u" ELSE Absent]

InitLogger ==
    /\ LOG_SETUP = FALSE
    /\ CONSOLE_LEVEL = INFO
    /\ CONSOLE_FORMAT = FORMATTER_USER
    /\ handlers = <<>>
    /\ emitted = <<>>
    /\ lastToggle = "none"
    /\ CA_BUNDLE = META_BUNDLE
    /\ result = NoCall
    /\ pc = [t \in Threads |-> "idle"]
    /\ now = 0
    /\ files = [q \in Paths |-> NoFile]

Init ==
    /\ InitLogger
    /\ sysdir \in {"dir", "file", "absent"}
    /\ sysWritable \in IF sysdir = "file" THEN {FALSE} ELSE BOOLEAN
    /\ tmpWritable \in BOOLEAN
    /\ tempdir \in {None, OSTMP}
    /\ environ = [NoEnv EXCEPT !["TMPDIR"] = "/v"]

\* the registry and the directory resolver
Next ==
    \/ GetLogger
    \/ EnableDebug
    \/ DisableDebug
    \/ GetBufferContents
    \/ \E level \in {DEBUG, INFO} : Log(level)
    \/ GetTempdir
    \/ \E makedirs \in MakedirsHere : GetLogdir(makedirs)

Spec == Init /\ [][Next]_vars

\* the exporters, with the calls that fill the buffer
ExportNext ==
    \/ GetBufferContents
    \/ \E level \in {DEBUG, INFO} : Log(level)
    \/ \E makedirs \in MakedirsHere : GetLogdir(makedirs)
    \/ \E makedirs \in MakedirsHere : MakeLogfile(makedirs)
    \/ \E path \in {NoPath, EmptyPath}, makedirs \in MakedirsHere :
          BufferToLogfile(path, makedirs, TRUE)
    \/ \E writable \in BOOLEAN :
          BufferToLogfile(UserPath, "not called", writable)
    \/ \E isfile \in IsFiles, service \in {"ok", "fail"} :
          CreatePaste(isfile, service)
    \/ \E isfile \in IsFiles, service \in {"ok", "fail"} :
          BufferLogToPaste(isfile, service)
    \/ Tick

ExportSpec == Init /\ [][ExportNext]_vars

(***************************************************************************)
(* get_tempdir over every environment.                                     *)
(***************************************************************************)
EnvInit ==
    /\ InitLogger
    /\ sysdir = "dir"
    /\ sysWritable \in BOOLEAN
    /\ tmpWritable \in BOOLEAN
    /\ tempdir \in {None, OSTMP}
    /\ environ \in {e \in [EnvNames -> EnvDirs \cup {Absent}] :
                       e["PATH"] = "/u"}

EnvNext ==
    \/ GetTempdir
    \/ \E makedirs \in MakedirsHere : GetLogdir(makedirs)

EnvSpec == EnvInit /\ [][EnvNext]_vars

(***************************************************************************)
(* get_logger() statement by statement, called from several threads.       *)
(* pc[t] is the line of get_logger thread t is about to run; "idle" before  *)
(* its first call, "has" when it holds the logger.                         *)
(***************************************************************************)
LoggerVars == <<LOG_SETUP, handlers, emitted>>
OtherVars == <<CONSOLE_LEVEL, CONSOLE_FORMAT, lastToggle, sysdir, sysWritable,
               tmpWritable, tempdir, environ, files, now, CA_BUNDLE, result>>

Goto(t, line) == pc' = [pc EXCEPT ![t] = line]

ThreadCall(t) ==
    /\ pc[t] \in {"idle", "has"}
    /\ Goto(t, "L49")
    /\ UNCHANGED <<LoggerVars, OtherVars>>

CheckSetup(t) ==
    /\ pc[t] = "L49"
    /\ Goto(t, IF ~LOG_SETUP THEN "L50" ELSE "L53")
    /\ UNCHANGED <<LoggerVars, OtherVars>>

AddConsole(t) ==
    /\ pc[t] = "L50"
    /\ handlers' = addHandler(handlers, setup_console_handler(World))
    /\ Goto(t, "L51")
    /\ UNCHANGED <<LOG_SETUP, emitted, OtherVars>>

AddBuffer(t) ==
    /\ pc[t] = "L51"
    /\ handlers' = addHandler(handlers, setup_buffer_handler)
    /\ Goto(t, "L52")
    /\ UNCHANGED <<LOG_SETUP, emitted, OtherVars>>

SetFlag(t) ==
    /\ pc[t] = "L52"
    /\ LOG_SETUP' = TRUE
    /\ Goto(t, "L53")
    /\ UNCHANGED <<handlers, emitted, OtherVars>>

Return(t) ==
    /\ pc[t] = "L53"
    /\ Goto(t, "has")
    /\ UNCHANGED <<LoggerVars, OtherVars>>

\* LOG.debug(...) or LOG.info(...) by a thread that holds the logger
ThreadLog(t, level) ==
    /\ pc[t] = "has"
    /\ \A i \in DOMAIN handlers : Len(handlers[i].stream) < MaxLog
    /\ \E w \in {log(World, level, "message")} :
          /\ handlers' = w.handlers
          /\ emitted' = w.emitted
    /\ UNCHANGED <<LOG_SETUP, pc, OtherVars>>

ConcInit ==
    /\ InitLogger
    /\ sysdir = "dir"
    /\ sysWritable = TRUE
    /\ tmpWritable = TRUE
    /\ tempdir = None
    /\ environ = NoEnv

ConcNext ==
    \E t \in Threads :
        \/ ThreadCall(t)
        \/ CheckSetup(t)
        \/ AddConsole(t)
        \/ AddBuffer(t)
        \/ SetFlag(t)
        \/ Return(t)
        \/ \E level \in {DEBUG, INFO} : ThreadLog(t, level)

ConcSpec == ConcInit /\ [][ConcNext]_vars

(***************************************************************************)
(* The claims.                                                             *)
(***************************************************************************)
Count(hs, name) == Len(SelectSeq(hs, LAMBDA h : h.name = name))
NoDuplicate(s) == \A i, j \in DOMAIN s : i # j => s[i] # s[j]
Consoles(hs) == SelectSeq(hs, LAMBDA h : h.name = "console")
Toggle == EnableDebug \/ DisableDebug
\* the lines the last resolver or exporter call added to the buffer
Logged == {Buffer[i][3] : i \in (result.pre + 1)..Len(Buffer)}

\* C1: in every sequence of get_logger, enable_debug, disable_debug,
\* get_buffer_contents and log calls (and of resolver calls), once
\* get_logger has returned the logger has exactly one handler named
\* "console" and exactly one named "buffer", so a record is handled at most
\* once per sink, and _LOG_SETUP never goes back from True to False.
C1_SinksAttachedOnce ==
    [][/\ LOG_SETUP => LOG_SETUP'
       /\ (LOG_SETUP' \/ handlers' # <<>>) =>
             /\ LOG_SETUP'
             /\ Count(handlers', "console") = 1
             /\ Count(handlers', "buffer") = 1
             /\ Len(handlers') = 2
             /\ NoDuplicate(emitted')]_vars

\* C1 witness: the logger is set up and an INFO record went once to each sink
C1_Witness ==
    /\ LOG_SETUP
    /\ emitted = <<"console", "buffer">>
    /\ Len(Buffer) = 1

\* C2: with threads interleaving inside get_logger, the logger never has
\* more than one console handler or more than one buffer handler.
C2_ConcurrentSetupOnce ==
    /\ Count(handlers, "console") <= 1
    /\ Count(handlers, "buffer") <= 1

\* C3: the buffer handler always has level DEBUG and the detailed format;
\* enable_debug and disable_debug change nothing but the level and the format
\* of the console handler, leaving in particular the buffer's text as it was;
\* and a record logged at DEBUG or above, whatever the console mode, is
\* appended to the buffer in the detailed format.
C3_TogglesLeaveBuffer ==
    [][/\ \A i \in DOMAIN handlers' :
             handlers'[i].name = "buffer" =>
                /\ handlers'[i].level = DEBUG
                /\ handlers'[i].formatter = FORMATTER_DEBUG
       /\ Toggle =>
             /\ Buffer' = Buffer
             /\ Len(handlers') = Len(handlers)
             /\ \A i \in DOMAIN handlers :
                   /\ handlers'[i].name = handlers[i].name
                   /\ handlers'[i].stream = handlers[i].stream
                   /\ handlers[i].name # "console" =>
                         handlers'[i] = handlers[i]
       /\ \A level \in {DEBUG, INFO} :
             Log(level) =>
                Buffer' = Append(Buffer,
                                 <<"asctime", LevelName(level), "message">>)
      ]_vars

\* C3 witness: a DEBUG record was kept by the buffer alone while the console
\* was at INFO, and enable_debug was called afterwards
C3_Witness ==
    /\ LOG_SETUP
    /\ emitted = <<"buffer">>
    /\ Buffer = <<<<"asctime", "DEBUG", "message">>>>
    /\ lastToggle = "enable_debug"
    /\ Consoles(handlers)[1].level = DEBUG

\* C4 (the claim as stated): get_logdir returns the OS temp directory, and
\* raises nothing, when _LOG_DIR exists and is not a directory, when it is
\* absent and os.makedirs raises PermissionError, and when it is a directory
\* (found or just created) whose write test fails; it returns _LOG_DIR when
\* it is a directory and the write test succeeds.
C4_LogdirCases ==
    result.op = "get_logdir" =>
        /\ result.arg.sysdir = "file" =>
              result.exc = "none" /\ result.ret = OSTMP
        /\ (result.arg.sysdir = "absent"
            /\ result.arg.makedirs = "PermissionError") =>
              result.exc = "none" /\ result.ret = OSTMP
        /\ (sysdir = "dir" /\ ~sysWritable) =>
              result.exc = "none" /\ result.ret = OSTMP
        /\ (sysdir = "dir" /\ sysWritable) =>
              result.exc = "none" /\ result.ret = LOG_DIR

\* C5 (the claim as stated): get_logdir always returns a directory path and
\* no exception escapes it, whatever the file system and whatever its steps
\* (os.makedirs, the temp directory lookup, the write tests) do.
C5_LogdirNeverRaises ==
    result.op = "get_logdir" =>
        result.exc = "none" /\ result.ret \in {LOG_DIR, OSTMP}

\* C6 (the claim as stated): when buffer_to_logfile returns a path the file
\* holds exactly what get_buffer_contents returns after the call, and called
\* with no path on an empty buffer it writes an empty file, also when
\* get_logdir falls back to the temp directory.
C6_RoundTripEmptyFile ==
    (result.op = "buffer_to_logfile" /\ result.ret # NoPath) =>
        /\ files[result.ret] = Buffer
        /\ (Falsy(result.arg.path) /\ result.pre = 0) =>
              files[result.ret] = <<>>

\* C6 (amended): when buffer_to_logfile returns a path the file holds exactly
\* what get_buffer_contents returns after the call; called with no path on an
\* empty buffer, the file is empty when _LOG_DIR was already a directory that
\* passes the write test, and otherwise (the directory was created, or the
\* call fell back to the temp directory) it holds the lines get_logdir logged
\* during the call.
C6_RoundTrip ==
    (result.op = "buffer_to_logfile" /\ result.ret # NoPath) =>
        /\ files[result.ret] = Buffer
        /\ (Falsy(result.arg.path) /\ result.pre = 0) =>
              /\ (result.ret[1] = LOG_DIR /\ result.arg.sysdir = "dir") =>
                    files[result.ret] = <<>>
              /\ (result.ret[1] = LOG_DIR /\ result.arg.sysdir # "dir") =>
                    /\ files[result.ret] # <<>>
                    /\ "Please verify permissions" \in Logged
              /\ result.ret[1] = OSTMP =>
                    /\ files[result.ret] # <<>>
                    /\ "Logging to temporary log directory" \in Logged

\* C6 witness: an export with no path on an empty buffer that fell back to
\* the temp directory and wrote the lines logged on the way
C6_Witness ==
    /\ result.op = "buffer_to_logfile"
    /\ result.ret # NoPath
    /\ Falsy(result.arg.path)
    /\ result.pre = 0
    /\ result.ret[1] = OSTMP
    /\ files[result.ret] = Buffer
    /\ Len(Buffer) >= 2

\* C7 (the claim as stated): no exception escapes buffer_to_logfile,
\* create_paste or buffer_log_to_paste.
C7_ExportsNeverRaise ==
    result.op \in {"buffer_to_logfile", "create_paste", "buffer_log_to_paste"}
        => result.exc = "none"

\* C8 (the claim as stated): when get_tempdir is over, whether the lookup
\* returned or raised, os.environ is what it was before the call.
C8_EnvironRestored ==
    result.op = "get_tempdir" => environ = result.arg

\* C9 (the claim as stated): when get_logdir returns the temp directory, the
\* error line "Failed to write log file" was logged if and only if the marker
\* file cannot be written in the temp directory.
C9_SecondTestOnTempdir ==
    (result.op = "get_logdir" /\ result.exc = "none" /\ result.ret = OSTMP) =>
        (ErrorLine \in Logged <=> ~tmpWritable)

\* C10: once the logger is set up its console handler has level DEBUG and
\* the detailed format if the last toggle was enable_debug, and level INFO
\* and the message-only format if it was disable_debug or there was none,
\* toggles made before the first get_logger included; and a toggle made
\* before setup does not set the logger up.
C10_ConsoleFollowsLastToggle ==
    [][/\ LOG_SETUP' =>
             /\ Consoles(handlers') # <<>>
             /\ \A i \in DOMAIN Consoles(handlers') :
                   /\ Consoles(handlers')[i].level =
                         IF lastToggle' = "enable_debug" THEN DEBUG ELSE INFO
                   /\ Consoles(handlers')[i].formatter =
                         IF lastToggle' = "enable_debug"
                         THEN FORMATTER_DEBUG ELSE FORMATTER_USER
       /\ (Toggle /\ ~LOG_SETUP) => (~LOG_SETUP' /\ handlers' = <<>>)
      ]_vars

\* C10 witness: the logger is set up, nothing is logged yet, and its console
\* handler is in debug mode after enable_debug
C10_Witness ==
    /\ LOG_SETUP
    /\ lastToggle = "enable_debug"
    /\ Buffer = <<>>
    /\ Consoles(handlers)[1].level = DEBUG
    /\ Consoles(handlers)[1].formatter = FORMATTER_DEBUG

====
